---- MODULE Spec2Model ----
(***************************************************************************)
(* osmpp: single pass over an OSM entity stream (src/main.go).             *)
(*   - node_network points are duplicated into derived points, one per     *)
(*     network family, with a fresh identifier (createNewNodeNetworkObject, *)
(*     writeNewNodeObject);                                                *)
(*   - turning_circle / turning_loop points are kept in a map, annotated   *)
(*     by the ways that reference them (addHighwayTypeToTurningCircleLoop)  *)
(*     and written after the scan.                                         *)
(* Writes to the output are assumed to succeed; opening the files and the  *)
(* decoder may fail.                                                       *)
(***************************************************************************)
EXTENDS Integers, Sequences, FiniteSets, TLC

VARIABLES
    pc,                        \* position of main: "start", "scan", or an exit
    inputOSM,                  \* flag -inputOSM
    outputNodes,               \* flag -outputNodes
    startNode,                 \* flag -startNode
    newNodeID,                 \* global newNodeID
    output,                    \* what was written to writer, in order
    turningCircleLoop,         \* map[osm.NodeID]*osm.Node
    turningCircleLoopModified, \* sum of the values addHighwayType... returned
    junctionPointsFound,
    turningCirclePointsFound,
    turningLoopPointsFound,
    fileInput,                 \* the input file: "unopened", "open", "closed"
    fileOutput,                \* the output file: "untouched", "open" (created
                               \* or truncated), "closed"
    stream,                    \* history: the objects the scanner delivered
    origin                     \* history: origin[k] is the number of objects
                               \* scanned when output[k] was written

vars == <<pc, inputOSM, outputNodes, startNode, newNodeID, output,
          turningCircleLoop, turningCircleLoopModified, junctionPointsFound,
          turningCirclePointsFound, turningLoopPointsFound, fileInput,
          fileOutput, stream, origin>>

----------------------------------------------------------------------------
(* Bounds and input alphabets *)

MaxEntities == 3

Tag(k, v) == [Key |-> k, Value |-> v]

\* latitude, longitude and the metadata the decoder fills in
NodeBodies ==
    { [Lat |-> 52, Lon |-> 7, User |-> "a", Visible |-> TRUE,
       Version |-> 8, ChangesetID |-> 10, Timestamp |-> 2019],
      [Lat |-> 48, Lon |-> 11, User |-> "b", Visible |-> FALSE,
       Version |-> 3, ChangesetID |-> 20, Timestamp |-> 2020] }

MkNode(id, body, tags) ==
    [ID |-> id, Lat |-> body.Lat, Lon |-> body.Lon, User |-> body.User,
     Visible |-> body.Visible, Version |-> body.Version,
     ChangesetID |-> body.ChangesetID, Timestamp |-> body.Timestamp,
     Tags |-> tags]

BodyOf(n) ==
    [Lat |-> n.Lat, Lon |-> n.Lon, User |-> n.User, Visible |-> n.Visible,
     Version |-> n.Version, ChangesetID |-> n.ChangesetID,
     Timestamp |-> n.Timestamp]

RECURSIVE Reverse(_)
Reverse(s) == IF s = <<>> THEN <<>> ELSE Append(Reverse(Tail(s)), Head(s))

----------------------------------------------------------------------------
(* osm.Tags.Map: result[t.Key] = t.Value for every tag in order, so the   *)
(* last tag of a key decides its value                                     *)

\* result[k] = v
SetKey(result, k, v) ==
    [x \in DOMAIN result \cup {k} |-> IF x = k THEN v ELSE result[x]]

RECURSIVE TagMapFrom(_, _, _)
TagMapFrom(tags, i, result) ==
    IF i > Len(tags) THEN result
    ELSE TagMapFrom(tags, i + 1, SetKey(result, tags[i].Key, tags[i].Value))

TagMap(tags) == TagMapFrom(tags, 1, <<>>)

\* the loops "for _, tag := range value.Tags { if tag.Key == "fzk_turning" ..."
fzkTagFound(tags) == \E i \in DOMAIN tags : tags[i].Key = "fzk_turning"

----------------------------------------------------------------------------
(* Node synthesis.  A writer state ws is [id, out]: the global newNodeID    *)
(* and the records written so far.                                         *)

\* F applied to the value of v, with v evaluated once
With(v, F(_)) == CHOOSE r \in {F(x) : x \in {v}} : TRUE

\* a counter that advances by two
NextNodeID_Skip(id) == id + 2

\* newNodeID++
NextNodeID(id) == id + 1

\* writeNewNodeObject: assign the identifier, advance it, write the record
writeNewNodeObject(ws, newOsmNode) ==
    With(ws, LAMBDA w :
        [id  |-> NextNodeID(w.id),
         out |-> Append(w.out, [kind |-> "node",
                                node |-> [newOsmNode EXCEPT !.ID = w.id]])])

\* a copy that keeps the tags of the source
CopyKeepingTags(sourceOsmNode) == [sourceOsmNode EXCEPT !.ID = 0]

\* newOsmNode := *sourceOsmNode; newOsmNode.ID = 0; newOsmNode.Tags = []osm.Tag{}
CopyWithoutTags(sourceOsmNode) ==
    [sourceOsmNode EXCEPT !.ID = 0, !.Tags = <<>>]

\* the two appends and the write of one "if found" branch
EmitNetworkNode(ws, newOsmNode, label, refValue) ==
    writeNewNodeObject(ws,
        [newOsmNode EXCEPT !.Tags =
            Append(Append(newOsmNode.Tags, Tag("node_network", label)),
                   Tag("name", refValue))])

\* a bicycle block that looks at rcn_ref first
Bicycle_RegionalFirst(ws, sourceOsmNode, tags) ==
    LET newOsmNode == CopyWithoutTags(sourceOsmNode)
    IN  IF "rcn_ref" \in DOMAIN tags
        THEN EmitNetworkNode(ws, newOsmNode, "node_bicycle", tags["rcn_ref"])
        ELSE IF "icn_ref" \in DOMAIN tags
        THEN EmitNetworkNode(ws, newOsmNode, "node_bicycle", tags["icn_ref"])
        ELSE IF "ncn_ref" \in DOMAIN tags
        THEN EmitNetworkNode(ws, newOsmNode, "node_bicycle", tags["ncn_ref"])
        ELSE IF "lcn_ref" \in DOMAIN tags
        THEN EmitNetworkNode(ws, newOsmNode, "node_bicycle", tags["lcn_ref"])
        ELSE ws

\* Punktnetzwerk 'Fahrrad'
Bicycle(ws, sourceOsmNode, tags) ==
    LET newOsmNode == CopyWithoutTags(sourceOsmNode)
    IN  IF "icn_ref" \in DOMAIN tags
        THEN EmitNetworkNode(ws, newOsmNode, "node_bicycle", tags["icn_ref"])
        ELSE IF "ncn_ref" \in DOMAIN tags
        THEN EmitNetworkNode(ws, newOsmNode, "node_bicycle", tags["ncn_ref"])
        ELSE IF "rcn_ref" \in DOMAIN tags
        THEN EmitNetworkNode(ws, newOsmNode, "node_bicycle", tags["rcn_ref"])
        ELSE IF "lcn_ref" \in DOMAIN tags
        THEN EmitNetworkNode(ws, newOsmNode, "node_bicycle", tags["lcn_ref"])
        ELSE ws

\* Punktnetzwerk 'Wandern'
Hiking(ws, sourceOsmNode, tags) ==
    LET newOsmNode == CopyWithoutTags(sourceOsmNode)
    IN  IF "iwn_ref" \in DOMAIN tags
        THEN EmitNetworkNode(ws, newOsmNode, "node_hiking", tags["iwn_ref"])
        ELSE IF "nwn_ref" \in DOMAIN tags
        THEN EmitNetworkNode(ws, newOsmNode, "node_hiking", tags["nwn_ref"])
        ELSE IF "rwn_ref" \in DOMAIN tags
        THEN EmitNetworkNode(ws, newOsmNode, "node_hiking", tags["rwn_ref"])
        ELSE IF "lwn_ref" \in DOMAIN tags
        THEN EmitNetworkNode(ws, newOsmNode, "node_hiking", tags["lwn_ref"])
        ELSE ws

\* Punktnetzwerk 'Inline-Skaten'
InlineSkates(ws, sourceOsmNode, tags) ==
    LET newOsmNode == CopyWithoutTags(sourceOsmNode)
    IN  IF "rin_ref" \in DOMAIN tags
        THEN EmitNetworkNode(ws, newOsmNode, "node_inline_skates",
                             tags["rin_ref"])
        ELSE ws

\* Punktnetzwerk 'Reiten'
Horse(ws, sourceOsmNode, tags) ==
    LET newOsmNode == CopyWithoutTags(sourceOsmNode)
    IN  IF "rhn_ref" \in DOMAIN tags
        THEN EmitNetworkNode(ws, newOsmNode, "node_horse", tags["rhn_ref"])
        ELSE ws

\* Punktnetzwerk 'Kanu'
Canoe(ws, sourceOsmNode, tags) ==
    LET newOsmNode == CopyWithoutTags(sourceOsmNode)
    IN  IF "rpn_ref" \in DOMAIN tags
        THEN EmitNetworkNode(ws, newOsmNode, "node_canoe", tags["rpn_ref"])
        ELSE ws

\* Punktnetzwerk 'Motorboot'
Motorboat(ws, sourceOsmNode, tags) ==
    LET newOsmNode == CopyWithoutTags(sourceOsmNode)
    IN  IF "rmn_ref" \in DOMAIN tags
        THEN EmitNetworkNode(ws, newOsmNode, "node_motorboat", tags["rmn_ref"])
        ELSE ws

\* six blocks with the horse block ahead of the inline skates block
createNewNodeNetworkObject_HorseFirst(ws, sourceOsmNode) ==
    With(TagMap(sourceOsmNode.Tags), LAMBDA tags :
        Motorboat(
          Canoe(
            InlineSkates(
              Horse(
                Hiking(
                  Bicycle(ws, sourceOsmNode, tags),
                  sourceOsmNode, tags),
                sourceOsmNode, tags),
              sourceOsmNode, tags),
            sourceOsmNode, tags),
          sourceOsmNode, tags))

\* six blocks of which the hiking block runs only if the bicycle block wrote
\* nothing
createNewNodeNetworkObject_ElseHiking(ws, sourceOsmNode) ==
    With(TagMap(sourceOsmNode.Tags), LAMBDA tags :
        With(Bicycle(ws, sourceOsmNode, tags), LAMBDA b :
            Motorboat(
              Canoe(
                Horse(
                  InlineSkates(
                    IF Len(b.out) > Len(ws.out) THEN b
                    ELSE Hiking(b, sourceOsmNode, tags),
                    sourceOsmNode, tags),
                  sourceOsmNode, tags),
                sourceOsmNode, tags),
              sourceOsmNode, tags)))

\* tags := sourceOsmNode.TagMap(), then the six blocks in the order of the
\* function body
createNewNodeNetworkObject(ws, sourceOsmNode) ==
    With(TagMap(sourceOsmNode.Tags), LAMBDA tags :
        Motorboat(
          Canoe(
            Horse(
              InlineSkates(
                Hiking(
                  Bicycle(ws, sourceOsmNode, tags),
                  sourceOsmNode, tags),
                sourceOsmNode, tags),
              sourceOsmNode, tags),
            sourceOsmNode, tags),
          sourceOsmNode, tags))

----------------------------------------------------------------------------
(* Turning circles and loops *)

\* a source that is the very record the function fills in and writes: it is
\* left with the tags and the identifier of the last point written, or
\* with no tags and identifier 0
SourceAfterCreate_Aliased(sourceOsmNode, ws) ==
    IF ws.out # <<>> /\ ws.out[Len(ws.out)].kind = "node"
           /\ ws.out[Len(ws.out)].node.ID = ws.id - 1
    THEN ws.out[Len(ws.out)].node
    ELSE [sourceOsmNode EXCEPT !.ID = 0, !.Tags = <<>>]

\* *sourceOsmNode when createNewNodeNetworkObject has returned with ws:
\* the function assigns to newOsmNode, a copy by value with a slice of its
\* own, never to the source
SourceAfterCreate(sourceOsmNode, ws) == sourceOsmNode

\* a test of the key alone
IsNodeNetwork_AnyValue(tags) == "network:type" \in DOMAIN tags

\* found && tagValue == "node_network"
IsNodeNetwork(tags) ==
    "network:type" \in DOMAIN tags /\ tags["network:type"] = "node_network"

\* found && tagValue == "turning_circle"
IsTurningCircle(tags) ==
    "highway" \in DOMAIN tags /\ tags["highway"] = "turning_circle"

\* found && tagValue == "turning_loop"
IsTurningLoop(tags) ==
    "highway" \in DOMAIN tags /\ tags["highway"] = "turning_loop"

\* the highway values of a way that are handed to addHighwayType...
HighwayTypes ==
    {"residential", "living_street", "unclassified", "service", "track"}

\* a test that accepts every highway value
IsQualifyingWay_AnyHighway(tags) == "highway" \in DOMAIN tags

\* found && (tagValue == "residential" || ... || tagValue == "track")
IsQualifyingWay(tags) ==
    "highway" \in DOMAIN tags /\ tags["highway"] \in HighwayTypes

\* a loop body that makes an entry for a reference it does not find
AnnotateOne_Insert(st, nodeID, highwayType) ==
    IF nodeID \in DOMAIN st.table
    THEN (IF fzkTagFound(st.table[nodeID].Tags) THEN st
          ELSE [table |-> [st.table EXCEPT ![nodeID].Tags =
                              Append(@, Tag("fzk_turning", highwayType))],
                found |-> st.found + 1])
    ELSE [table |-> [k \in DOMAIN st.table \cup {nodeID} |->
                        IF k = nodeID
                        THEN [ID |-> nodeID,
                              Tags |-> <<Tag("fzk_turning", highwayType)>>]
                        ELSE st.table[k]],
          found |-> st.found + 1]

\* a loop body that counts every reference it finds in the map
AnnotateOne_CountAll(st, nodeID, highwayType) ==
    IF nodeID \in DOMAIN st.table
    THEN [table |-> IF fzkTagFound(st.table[nodeID].Tags) THEN st.table
                    ELSE [st.table EXCEPT ![nodeID].Tags =
                             Append(@, Tag("fzk_turning", highwayType))],
          found |-> st.found + 1]
    ELSE st

\* a loop body in which the last path decides
AnnotateOne_LastWins(st, nodeID, highwayType) ==
    IF nodeID \in DOMAIN st.table
    THEN [table |-> [st.table EXCEPT ![nodeID].Tags =
                        Append(SelectSeq(@, LAMBDA t : t.Key # "fzk_turning"),
                               Tag("fzk_turning", highwayType))],
          found |-> st.found + 1]
    ELSE st

\* a loop body without the check for an existing tag
AnnotateOne_NoCheck(st, nodeID, highwayType) ==
    IF nodeID \in DOMAIN st.table
    THEN [table |-> [st.table EXCEPT ![nodeID].Tags =
                        Append(@, Tag("fzk_turning", highwayType))],
          found |-> st.found + 1]
    ELSE st

\* the body of the loop over e.Nodes for one node reference;
\* st is [table, found]
AnnotateOne(st, nodeID, highwayType) ==
    IF nodeID \in DOMAIN st.table /\ ~fzkTagFound(st.table[nodeID].Tags)
    THEN [table |-> [st.table EXCEPT ![nodeID].Tags =
                        Append(@, Tag("fzk_turning", highwayType))],
          found |-> st.found + 1]
    ELSE st

RECURSIVE AnnotateFrom(_, _, _, _)
AnnotateFrom(st, wayNodes, i, highwayType) ==
    IF i > Len(wayNodes) THEN st
    ELSE AnnotateFrom(AnnotateOne(st, wayNodes[i], highwayType),
                      wayNodes, i + 1, highwayType)

\* a count of the references the way lists, found in the map or not
addHighwayTypeToTurningCircleLoop_CountsReferences(e, table, highwayType) ==
    [table |-> AnnotateFrom([table |-> table, found |-> 0], e.Nodes, 1,
                            highwayType).table,
     found |-> Len(e.Nodes)]

\* addHighwayTypeToTurningCircleLoop: the map after the call and the count
addHighwayTypeToTurningCircleLoop(e, table, highwayType) ==
    AnnotateFrom([table |-> table, found |-> 0], e.Nodes, 1, highwayType)

\* a final write that appends not_set to every record
Finalize_Always(value) ==
    [value EXCEPT !.Tags = Append(@, Tag("fzk_turning", "not_set"))]

\* a final write that appends nothing
Finalize_Keep(value) == value

\* the loop body of the final write for one map value
Finalize(value) ==
    IF fzkTagFound(value.Tags) THEN value
    ELSE [value EXCEPT !.Tags = Append(@, Tag("fzk_turning", "not_set"))]

----------------------------------------------------------------------------
(* The objects the scanner may deliver *)

NodeIDs == {1, 2}

\* the decoder's other fields of the node with a given identifier
BodyOfID(id) ==
    IF id = 1
    THEN [Lat |-> 52, Lon |-> 7, User |-> "a", Visible |-> TRUE,
          Version |-> 8, ChangesetID |-> 10, Timestamp |-> 2019]
    ELSE [Lat |-> 48, Lon |-> 11, User |-> "b", Visible |-> FALSE,
          Version |-> 3, ChangesetID |-> 20, Timestamp |-> 2020]

NodeTagLists ==
    { <<>>,
      <<Tag("network:type", "node_network"), Tag("rcn_ref", "53"),
        Tag("rwn_ref", "X32"), Tag("rin_ref", "s7"), Tag("rhn_ref", "h8"),
        Tag("rpn_ref", "p9"), Tag("rmn_ref", "m0")>>,
      <<Tag("rmn_ref", "m0"), Tag("rpn_ref", "p9"), Tag("rhn_ref", "h8"),
        Tag("rin_ref", "s7"), Tag("rwn_ref", "X32"), Tag("rcn_ref", "53"),
        Tag("network:type", "node_network")>>,
      <<Tag("network:type", "route"), Tag("rcn_ref", "53"),
        Tag("highway", "crossing")>>,
      <<Tag("rcn_ref", "53")>>,
      <<Tag("highway", "turning_circle")>>,
      <<Tag("highway", "turning_loop")>>,
      <<Tag("highway", "turning_circle"), Tag("fzk_turning", "primary")>>,
      <<Tag("network:type", "node_network"), Tag("icn_ref", "7"),
        Tag("highway", "turning_loop")>>,
      <<Tag("network:type", "node_network"), Tag("rwn_ref", "X32"),
        Tag("highway", "turning_circle"), Tag("fzk_turning", "primary")>> }

\* the tag lists of a point that is a turning point and nothing else
TurningTagLists ==
    { <<Tag("highway", "turning_loop")>>,
      <<Tag("highway", "turning_circle"), Tag("fzk_turning", "primary")>> }

\* point 1 under every tag list, point 2 as a turning point
Nodes ==
    { [type |-> "node", e |-> MkNode(1, BodyOfID(1), tags)] :
        tags \in NodeTagLists }
    \cup { [type |-> "node", e |-> MkNode(2, BodyOfID(2), tags)] :
              tags \in TurningTagLists }

WayTagLists ==
    { <<>>, <<Tag("highway", "footway")>>, <<Tag("name", "Ring")>> }
    \cup { <<Tag("highway", h)>> : h \in HighwayTypes }

\* a closed way through both points, under every tag list
LoopWays ==
    { [type |-> "way", e |-> [ID |-> 5, Tags |-> tags, Nodes |-> <<1, 2, 1>>]] :
        tags \in WayTagLists }

\* a way that ends at point 1
SpurWays ==
    { [type |-> "way",
       e |-> [ID |-> 6, Tags |-> <<Tag("highway", h)>>, Nodes |-> <<1>>]] :
        h \in {"residential"} }

Ways == LoopWays \cup SpurWays

Relations == { [type |-> "relation", e |-> [ID |-> 9]] }

\* Network points for the synthesis alone: every set of reference keys,
\* with the marker absent, set, or set to another value, in two tag orders
RefKeyOrder ==
    <<"icn_ref", "ncn_ref", "rcn_ref", "lcn_ref",
      "iwn_ref", "nwn_ref", "rwn_ref", "lwn_ref",
      "rin_ref", "rhn_ref", "rpn_ref", "rmn_ref">>

RefKeys == {RefKeyOrder[i] : i \in DOMAIN RefKeyOrder}

RefValues ==
    [icn_ref |-> "1", ncn_ref |-> "22", rcn_ref |-> "53", lcn_ref |-> "4",
     iwn_ref |-> "A", nwn_ref |-> "B2", rwn_ref |-> "X32", lwn_ref |-> "D",
     rin_ref |-> "s7", rhn_ref |-> "h8", rpn_ref |-> "p9", rmn_ref |-> "m0"]

MarkerLists ==
    { <<>>, <<Tag("network:type", "node_network")>>,
      <<Tag("network:type", "route")>> }

\* a name of the point itself, as OSM data carries it
ExtraLists == { <<>>, <<Tag("name", "Spechtholtshook")>> }

\* the tags of the chosen keys, from position i of RefKeyOrder on
RECURSIVE RefTagsFrom(_, _)
RefTagsFrom(keys, i) ==
    IF i > Len(RefKeyOrder) THEN <<>>
    ELSE (IF RefKeyOrder[i] \in keys
          THEN <<Tag(RefKeyOrder[i], RefValues[RefKeyOrder[i]])>>
          ELSE <<>>) \o RefTagsFrom(keys, i + 1)

RefTags(keys) == RefTagsFrom(keys, 1)

InOrder(t, reversed) == IF reversed THEN Reverse(t) ELSE t

SynthNodes(bodies) ==
    { [type |-> "node",
       e |-> MkNode(1, body, InOrder((m \o RefTags(keys)) \o x, reversed))] :
        body \in bodies, m \in MarkerLists, keys \in SUBSET RefKeys,
        x \in ExtraLists, reversed \in BOOLEAN }

InputNames == {"", "osmdata.pbf"}
OutputNames == {"", "osmpp.xml"}
StartNodes == {0, 2}

----------------------------------------------------------------------------
(* main *)

Init ==
    /\ pc = "start"
    /\ inputOSM \in InputNames
    /\ outputNodes \in OutputNames
    /\ startNode \in StartNodes
    /\ newNodeID = 0
    /\ output = <<>>
    /\ turningCircleLoop = <<>>
    /\ turningCircleLoopModified = 0
    /\ junctionPointsFound = 0
    /\ turningCirclePointsFound = 0
    /\ turningLoopPointsFound = 0
    /\ fileInput = "unopened"
    /\ fileOutput = "untouched"
    /\ stream = <<>>
    /\ origin = <<>>

\* a test that asks for all three flags to be missing
UsageNeeded_All == inputOSM = "" /\ outputNodes = "" /\ startNode = 0

\* *inputOSM == "" || *outputNodes == "" || *startNode == 0
UsageNeeded == inputOSM = "" \/ outputNodes = "" \/ startNode = 0

\* origin of the records written while the object number `at` is current
Stamp(out, at) == [k \in 1..(Len(out) - Len(output)) |-> at]

\* printProgUsage: os.Exit(1)
StartUsage ==
    /\ pc = "start"
    /\ UsageNeeded
    /\ pc' = "exit_usage"
    /\ UNCHANGED <<fileInput, fileOutput>>
    /\ UNCHANGED <<inputOSM, outputNodes, startNode, newNodeID, output,
                   turningCircleLoop, turningCircleLoopModified,
                   junctionPointsFound, turningCirclePointsFound,
                   turningLoopPointsFound, stream, origin>>

\* os.Open or os.OpenFile fails: log.Fatalf
StartOpenFail ==
    /\ pc = "start"
    /\ ~UsageNeeded
    /\ pc' = "exit_fatal"
    \* os.Open fails, or os.Open succeeds and os.OpenFile fails
    /\ fileInput' \in {"unopened", "open"}
    /\ fileOutput' = fileOutput
    /\ UNCHANGED <<inputOSM, outputNodes, startNode, newNodeID, output,
                   turningCircleLoop, turningCircleLoopModified,
                   junctionPointsFound, turningCirclePointsFound,
                   turningLoopPointsFound, stream, origin>>

\* files opened, the two header lines written, newNodeID set
StartOK ==
    /\ pc = "start"
    /\ ~UsageNeeded
    /\ pc' = "scan"
    /\ output' = <<[kind |-> "xmldecl"], [kind |-> "osm_open"]>>
    /\ origin' = <<0, 0>>
    /\ newNodeID' = startNode
    /\ fileInput' = "open"
    /\ fileOutput' = "open"
    /\ UNCHANGED <<inputOSM, outputNodes, startNode,
                   turningCircleLoop, turningCircleLoopModified,
                   junctionPointsFound, turningCirclePointsFound,
                   turningLoopPointsFound, stream>>

\* a registration that keeps the entry an identifier already has
Put_KeepFirst(table, e) ==
    [k \in DOMAIN table \cup {e.ID} |->
        IF k \in DOMAIN table THEN table[k] ELSE e]

\* turningCircleLoop[e.ID] = e
Put(table, e) ==
    [k \in DOMAIN table \cup {e.ID} |-> IF k = e.ID THEN e ELSE table[k]]

\* case *osm.Node
Node(x) ==
    /\ pc = "scan"
    /\ x.type = "node"
    /\ stream' = Append(stream, x)
    /\ \E tags \in {TagMap(x.e.Tags)} :
         LET network == DOMAIN tags # {} /\ IsNodeNetwork(tags)
             circle == DOMAIN tags # {} /\ IsTurningCircle(tags)
             loop == DOMAIN tags # {} /\ IsTurningLoop(tags)
             ws0 == [id |-> newNodeID, out |-> output]
         IN  /\ junctionPointsFound' =
                    junctionPointsFound + (IF network THEN 1 ELSE 0)
             /\ \E ws \in {IF network
                           THEN createNewNodeNetworkObject(ws0, x.e)
                           ELSE ws0} :
                  \* e is *e as the call above leaves it
                  LET e == IF network THEN SourceAfterCreate(x.e, ws)
                           ELSE x.e
                      afterCircle == IF circle THEN Put(turningCircleLoop, e)
                                     ELSE turningCircleLoop
                  IN  /\ newNodeID' = ws.id
                      /\ output' = ws.out
                      /\ origin' = origin \o Stamp(ws.out, Len(stream) + 1)
                      /\ turningCircleLoop' =
                             IF loop THEN Put(afterCircle, e) ELSE afterCircle
             /\ turningCirclePointsFound' =
                    turningCirclePointsFound + (IF circle THEN 1 ELSE 0)
             /\ turningLoopPointsFound' =
                    turningLoopPointsFound + (IF loop THEN 1 ELSE 0)
    /\ UNCHANGED <<fileInput, fileOutput>>
    /\ UNCHANGED <<pc, inputOSM, outputNodes, startNode,
                   turningCircleLoopModified>>

\* case *osm.Way
Way(x) ==
    LET e == x.e
        tags == TagMap(e.Tags)
        qualifies == DOMAIN tags # {} /\ IsQualifyingWay(tags)
        r == IF qualifies
             THEN addHighwayTypeToTurningCircleLoop(e, turningCircleLoop,
                                                    tags["highway"])
             ELSE [table |-> turningCircleLoop, found |-> 0]
    IN  /\ pc = "scan"
        /\ x.type = "way"
        /\ stream' = Append(stream, x)
        /\ turningCircleLoop' = r.table
        /\ turningCircleLoopModified' = turningCircleLoopModified + r.found
        /\ UNCHANGED <<fileInput, fileOutput>>
        /\ UNCHANGED <<pc, inputOSM, outputNodes, startNode, newNodeID, output,
                       junctionPointsFound, turningCirclePointsFound,
                       turningLoopPointsFound, origin>>

\* case *osm.Relation
Relation(x) ==
    /\ pc = "scan"
    /\ x.type = "relation"
    /\ stream' = Append(stream, x)
    /\ UNCHANGED <<fileInput, fileOutput>>
    /\ UNCHANGED <<pc, inputOSM, outputNodes, startNode, newNodeID, output,
                   turningCircleLoop, turningCircleLoopModified,
                   junctionPointsFound, turningCirclePointsFound,
                   turningLoopPointsFound, origin>>

\* scanner.Scan() delivers one more object
MoreToScan == pc = "scan" /\ Len(stream) < MaxEntities

ScanNode == MoreToScan /\ \E x \in Nodes : Node(x)
ScanWay == MoreToScan /\ \E x \in Ways : Way(x)
ScanRelation == MoreToScan /\ \E x \in Relations : Relation(x)

\* a visiting order that may take a key twice and leave another out
Orders_Any(table) ==
    [1..Cardinality(DOMAIN table) -> DOMAIN table]

\* the orders in which "range turningCircleLoop" may visit the keys
Orders(table) ==
    { o \in [1..Cardinality(DOMAIN table) -> DOMAIN table] :
        \A i, j \in DOMAIN o : i # j => o[i] # o[j] }

\* the process exit status of each way the run ends: os.Exit(0), os.Exit(1),
\* log.Fatalf
ExitCodes ==
    [exit_0 |-> 0, exit_usage |-> 1, exit_fatal |-> 1, exit_scan_error |-> 1]

\* an error exit taken only after the map's records and the closing tag
\* are written
ScanError_Late ==
    /\ pc = "scan"
    /\ \E o \in Orders(turningCircleLoop) :
         LET final == [k \in DOMAIN turningCircleLoop |->
                          Finalize(turningCircleLoop[k])]
             written == [i \in DOMAIN o |->
                          [kind |-> "node", node |-> final[o[i]]]]
         IN  /\ turningCircleLoop' = final
             /\ output' = (output \o written) \o <<[kind |-> "osm_close"]>>
             /\ origin' = origin \o [i \in 1..(Len(o) + 1) |-> Len(stream) + 1]
    /\ pc' = "exit_scan_error"
    /\ UNCHANGED <<fileInput, fileOutput>>
    /\ UNCHANGED <<inputOSM, outputNodes, startNode, newNodeID,
                   turningCircleLoopModified, junctionPointsFound,
                   turningCirclePointsFound, turningLoopPointsFound, stream>>

\* scanner.Err() != nil: os.Exit(1)
ScanError ==
    /\ pc = "scan"
    /\ pc' = "exit_scan_error"
    /\ UNCHANGED <<fileInput, fileOutput>>
    /\ UNCHANGED <<inputOSM, outputNodes, startNode, newNodeID, output,
                   turningCircleLoop, turningCircleLoopModified,
                   junctionPointsFound, turningCirclePointsFound,
                   turningLoopPointsFound, stream, origin>>

\* an end of the scan that writes the closing tag before the map's records
EndOfStream_CloseFirst ==
    /\ pc = "scan"
    /\ \E o \in Orders(turningCircleLoop) :
         LET final == [k \in DOMAIN turningCircleLoop |->
                          Finalize(turningCircleLoop[k])]
             written == [i \in DOMAIN o |->
                          [kind |-> "node", node |-> final[o[i]]]]
         IN  /\ turningCircleLoop' = final
             /\ output' = (output \o <<[kind |-> "osm_close"]>>) \o written
             /\ origin' = origin \o [i \in 1..(Len(o) + 1) |-> Len(stream) + 1]
    /\ pc' = "exit_0"
    /\ fileInput' = "closed"
    /\ fileOutput' = "closed"
    /\ UNCHANGED <<inputOSM, outputNodes, startNode, newNodeID,
                   turningCircleLoopModified, junctionPointsFound,
                   turningCirclePointsFound, turningLoopPointsFound, stream>>

\* the scan ended without error: every map value gets its fzk_turning tag,
\* is written, then the closing tag; os.Exit(0)
EndOfStream ==
    /\ pc = "scan"
    /\ \E o \in Orders(turningCircleLoop) :
         LET final == [k \in DOMAIN turningCircleLoop |->
                          Finalize(turningCircleLoop[k])]
             written == [i \in DOMAIN o |->
                          [kind |-> "node", node |-> final[o[i]]]]
         IN  /\ turningCircleLoop' = final
             /\ output' = (output \o written) \o <<[kind |-> "osm_close"]>>
             /\ origin' = origin \o [i \in 1..(Len(o) + 1) |-> Len(stream) + 1]
    /\ pc' = "exit_0"
    /\ fileInput' = "closed"
    /\ fileOutput' = "closed"
    /\ UNCHANGED <<inputOSM, outputNodes, startNode, newNodeID,
                   turningCircleLoopModified, junctionPointsFound,
                   turningCirclePointsFound, turningLoopPointsFound, stream>>

Next ==
    \/ StartUsage
    \/ StartOpenFail
    \/ StartOK
    \/ ScanNode
    \/ ScanWay
    \/ ScanRelation
    \/ ScanError
    \/ EndOfStream

Spec == Init /\ [][Next]_vars

\* one network point, drawn from SynthNodes, as the first object of a run
ScanSynthNode ==
    /\ pc = "scan"
    /\ stream = <<>>
    /\ \E x \in SynthNodes(NodeBodies) : Node(x)

NextSynth ==
    \/ StartUsage
    \/ StartOpenFail
    \/ StartOK
    \/ ScanSynthNode

SpecSynth == Init /\ [][NextSynth]_vars

----------------------------------------------------------------------------
(* Vocabulary of the properties, in terms of the objects scanned and the   *)
(* records written                                                         *)

\* the value of key k in a tag list, and whether the list gives k that value
HasKey(tags, k) == \E i \in DOMAIN tags : tags[i].Key = k
TagValue(tags, k) ==
    tags[CHOOSE i \in DOMAIN tags :
            /\ tags[i].Key = k
            /\ \A j \in DOMAIN tags : j > i => tags[j].Key # k].Value
HasTag(tags, k, v) ==
    \E i \in DOMAIN tags :
        /\ tags[i].Key = k
        /\ tags[i].Value = v
        /\ \A j \in DOMAIN tags : j > i => tags[j].Key # k

\* the positions of a tag list that hold key k
KeyPositions(tags, k) == {i \in DOMAIN tags : tags[i].Key = k}

IsNetworkPoint(n) == HasTag(n.Tags, "network:type", "node_network")
IsTurningPoint(n) ==
    \E i \in DOMAIN n.Tags :
        /\ n.Tags[i].Key = "highway"
        /\ n.Tags[i].Value \in {"turning_circle", "turning_loop"}
        /\ \A j \in DOMAIN n.Tags : j > i => n.Tags[j].Key # "highway"

Running == pc \in {"scan", "exit_0", "exit_scan_error"}

\* output positions of the derived points: node records written while an
\* object was being processed
DerivedAt == {k \in DOMAIN output :
                 output[k].kind = "node" /\ origin[k] \in 1..Len(stream)}

\* output positions of the records written after the scan
DrainedAt == {k \in DOMAIN output :
                 output[k].kind = "node" /\ origin[k] = Len(stream) + 1}

\* the derived points of the object number i
DerivedOf(i) == {k \in DerivedAt : origin[k] = i}

\* the point a derived record was made from
SourceOf(k) == stream[origin[k]].e

\* a step that scans one more object, and that object
ScanStep == Len(stream') = Len(stream) + 1
Scanned == stream'[Len(stream')]

(* The reference keys of each network family, in the order the claim gives *)
FamilyKeys ==
    [node_bicycle       |-> <<"icn_ref", "ncn_ref", "rcn_ref", "lcn_ref">>,
     node_hiking        |-> <<"iwn_ref", "nwn_ref", "rwn_ref", "lwn_ref">>,
     node_inline_skates |-> <<"rin_ref">>,
     node_horse         |-> <<"rhn_ref">>,
     node_canoe         |-> <<"rpn_ref">>,
     node_motorboat     |-> <<"rmn_ref">>]

Families == DOMAIN FamilyKeys

\* the positions of a family's keys that the point carries
PresentKeys(n, family) ==
    {i \in DOMAIN FamilyKeys[family] : HasKey(n.Tags, FamilyKeys[family][i])}

\* the value of the first of the family's keys that the point carries
FirstRef(n, family) ==
    LET present == PresentKeys(n, family)
        first == CHOOSE i \in present : \A j \in present : i <= j
    IN  TagValue(n.Tags, FamilyKeys[family][first])

\* the derived points of object i that carry the family's label
FamilyDerived(i, family) ==
    {k \in DerivedOf(i) :
        HasTag(output[k].node.Tags, "node_network", family)}

----------------------------------------------------------------------------
(* C1: the k-th derived point of a run carries identifier start+k, and the  *)
(* counter stands at start plus the number of derived points written, so   *)
(* nothing but a synthesized point advances it.                            *)
C1_DerivedIdentifiers ==
    Running =>
        LET at == DerivedAt
        IN  /\ \A k \in at :
                 output[k].node.ID =
                     startNode + Cardinality({j \in at : j < k})
            /\ newNodeID = startNode + Cardinality(at)

\* derived points of two network points with a way, a relation or a turning
\* point scanned in between
C1_Witness ==
    /\ Len(stream) = 3
    /\ DerivedOf(1) # {}
    /\ DerivedOf(3) # {}
    /\ stream[2].type \in {"way", "relation"}
           \/ (stream[2].type = "node" /\ IsTurningPoint(stream[2].e)
                  /\ ~IsNetworkPoint(stream[2].e))

(* C2: a derived point has exactly the two tags node_network = <label> and  *)
(* name = <value of a reference key of that label's family on the source>,  *)
(* in this order, carries no tag of the source under any other key, and    *)
(* has the source's latitude, longitude and metadata.                      *)
C2_DerivedRecord ==
    \A k \in DerivedAt :
        LET d == output[k].node
            src == SourceOf(k)
        IN  /\ Len(d.Tags) = 2
            /\ d.Tags[1].Key = "node_network"
            /\ d.Tags[1].Value \in Families
            /\ d.Tags[2].Key = "name"
            /\ \E i \in PresentKeys(src, d.Tags[1].Value) :
                 d.Tags[2].Value =
                     TagValue(src.Tags, FamilyKeys[d.Tags[1].Value][i])
            /\ \A i \in DOMAIN src.Tags :
                 src.Tags[i].Key \notin {"node_network", "name"}
                     => \A j \in DOMAIN d.Tags : d.Tags[j] # src.Tags[i]
            /\ BodyOf(d) = BodyOf(src)

\* a derived point of a source that has a name tag of its own and other tags
C2_Witness ==
    \E k \in DerivedAt :
        /\ HasKey(SourceOf(k).Tags, "name")
        /\ Len(SourceOf(k).Tags) >= 4
        /\ SourceOf(k).Lat = 48

(* C3: of a network point, the bicycle family writes at most one derived    *)
(* point, named by the first present key of icn_ref, ncn_ref, rcn_ref,      *)
(* lcn_ref; the hiking family likewise over iwn_ref, nwn_ref, rwn_ref,      *)
(* lwn_ref.                                                                *)
C3_PriorityChain ==
    \A i \in DOMAIN stream : \A family \in {"node_bicycle", "node_hiking"} :
        (stream[i].type = "node" /\ IsNetworkPoint(stream[i].e)) =>
            /\ Cardinality(FamilyDerived(i, family)) <= 1
            /\ \A k \in FamilyDerived(i, family) :
                 /\ PresentKeys(stream[i].e, family) # {}
                 /\ HasTag(output[k].node.Tags, "name",
                           FirstRef(stream[i].e, family))

\* a point with icn_ref and rcn_ref, and rwn_ref and lwn_ref without iwn_ref
C3_Witness ==
    \E i \in DOMAIN stream :
        /\ PresentKeys(stream[i].e, "node_bicycle") = {1, 3}
        /\ PresentKeys(stream[i].e, "node_hiking") = {3, 4}
        /\ FamilyDerived(i, "node_bicycle") # {}
        /\ FamilyDerived(i, "node_hiking") # {}

(* C4: of a network point, each of the six families writes one derived      *)
(* point if the point carries one of that family's keys and none           *)
(* otherwise, whatever the keys of the other families, and no other        *)
(* derived point is written: their number is the number of such families.  *)
C4_FamiliesIndependent ==
    \A i \in DOMAIN stream :
        (stream[i].type = "node" /\ IsNetworkPoint(stream[i].e)) =>
            /\ \A family \in Families :
                 /\ Cardinality(FamilyDerived(i, family)) =
                        (IF PresentKeys(stream[i].e, family) # {} THEN 1 ELSE 0)
                 /\ \A k \in FamilyDerived(i, family) :
                      HasTag(output[k].node.Tags, "name",
                             FirstRef(stream[i].e, family))
            /\ Cardinality(DerivedOf(i)) =
                   Cardinality({family \in Families :
                                   PresentKeys(stream[i].e, family) # {}})
            /\ Cardinality(DerivedOf(i)) \in 0..6

\* six derived points of one point
C4_Witness == \E i \in DOMAIN stream : Cardinality(DerivedOf(i)) = 6

\* a network point that carries no reference key
C4_WitnessNone ==
    \E i \in DOMAIN stream :
        /\ stream[i].type = "node"
        /\ IsNetworkPoint(stream[i].e)
        /\ DerivedOf(i) = {}

(* C5: scanning a point without network:type = node_network writes nothing  *)
(* and leaves the counter; scanning a point whose highway is neither       *)
(* turning_circle nor turning_loop leaves the map.                         *)
C5_NonMatchingPoint ==
    [][(ScanStep /\ Scanned.type = "node") =>
          /\ ~IsNetworkPoint(Scanned.e) =>
                 (output' = output /\ newNodeID' = newNodeID)
          /\ ~IsTurningPoint(Scanned.e) =>
                 turningCircleLoop' = turningCircleLoop]_vars

\* a point with a reference key and another network:type, one with a
\* reference key and no network:type, neither written nor kept
C5_Witness ==
    /\ Len(stream) >= 2
    /\ stream[1].type = "node"
    /\ HasTag(stream[1].e.Tags, "network:type", "route")
    /\ HasKey(stream[1].e.Tags, "rcn_ref")
    /\ HasTag(stream[1].e.Tags, "highway", "crossing")
    /\ stream[2].type = "node"
    /\ ~HasKey(stream[2].e.Tags, "network:type")
    /\ HasKey(stream[2].e.Tags, "rcn_ref")
    /\ DerivedAt = {}
    /\ turningCircleLoop = <<>>

----------------------------------------------------------------------------
(* Turning points: vocabulary *)

\* the highway values of a path that the claims call qualifying
QualifyingCategories ==
    {"residential", "living_street", "unclassified", "service", "track"}

IsQualifyingPath(w) ==
    \E h \in QualifyingCategories : HasTag(w.Tags, "highway", h)

References(w, id) == \E j \in DOMAIN w.Nodes : w.Nodes[j] = id

\* the positions of the stream at which the point id is registered
Registrations(id) ==
    {i \in DOMAIN stream :
        /\ stream[i].type = "node"
        /\ stream[i].e.ID = id
        /\ IsTurningPoint(stream[i].e)}

RegisteredIDs == {id \in NodeIDs : Registrations(id) # {}}

LastRegistration(id) ==
    LET at == Registrations(id)
    IN  CHOOSE i \in at : \A j \in at : j <= i

\* the point as the scanner delivered it at its last registration
Registered(id) == stream[LastRegistration(id)].e

\* the qualifying paths that reference id, anywhere and after its registration
PathsEver(id) ==
    {j \in DOMAIN stream :
        /\ stream[j].type = "way"
        /\ IsQualifyingPath(stream[j].e)
        /\ References(stream[j].e, id)}

PathsAfter(id) == {j \in PathsEver(id) : j > LastRegistration(id)}

FirstPathAfter(id) ==
    CHOOSE j \in PathsAfter(id) : \A l \in PathsAfter(id) : j <= l

CategoryOf(j) == TagValue(stream[j].e.Tags, "highway")

\* the records written for id after the scan
EmittedFor(id) == {k \in DrainedAt : output[k].node.ID = id}

FzkCount(tags) == Cardinality(KeyPositions(tags, "fzk_turning"))

\* a turning_circle point referenced afterwards by one qualifying path, a
\* residential one
OneResidentialPath(id) ==
    /\ HasTag(Registered(id).Tags, "highway", "turning_circle")
    /\ Cardinality(PathsAfter(id)) = 1
    /\ \A j \in PathsAfter(id) : CategoryOf(j) = "residential"

\* referenced afterwards by qualifying paths of different categories
SeveralCategories(id) ==
    Cardinality({CategoryOf(j) : j \in PathsAfter(id)}) >= 2

----------------------------------------------------------------------------
(* C6, as claimed: after the drain a turning_circle point referenced later  *)
(* by exactly one qualifying path, tagged residential, has exactly one      *)
(* fzk_turning entry, residential; and no point has two fzk_turning        *)
(* entries.                                                                *)
C6_AsClaimed ==
    pc = "exit_0" =>
        \A id \in RegisteredIDs :
            /\ EmittedFor(id) # {}
            /\ \A k \in EmittedFor(id) :
                 /\ FzkCount(output[k].node.Tags) <= 1
                 /\ OneResidentialPath(id) =>
                      /\ FzkCount(output[k].node.Tags) = 1
                      /\ HasTag(output[k].node.Tags, "fzk_turning",
                                "residential")

(* C6, amended: the same of a point that carries no fzk_turning tag when    *)
(* it is registered                                                        *)
C6_Amended ==
    pc = "exit_0" =>
        \A id \in RegisteredIDs :
            ~HasKey(Registered(id).Tags, "fzk_turning") =>
                /\ EmittedFor(id) # {}
                /\ \A k \in EmittedFor(id) :
                     /\ FzkCount(output[k].node.Tags) <= 1
                     /\ OneResidentialPath(id) =>
                          /\ FzkCount(output[k].node.Tags) = 1
                          /\ HasTag(output[k].node.Tags, "fzk_turning",
                                    "residential")

\* a drained run with such a point, its one path running twice through it
C6_Witness ==
    /\ pc = "exit_0"
    /\ \E id \in RegisteredIDs :
         /\ ~HasKey(Registered(id).Tags, "fzk_turning")
         /\ OneResidentialPath(id)
         /\ \A j \in PathsAfter(id) :
              Cardinality({l \in DOMAIN stream[j].e.Nodes :
                              stream[j].e.Nodes[l] = id}) = 2

(* C7, as claimed: after the drain a turning point that no qualifying path  *)
(* of the run references carries fzk_turning = not_set.                    *)
C7_AsClaimed ==
    pc = "exit_0" =>
        \A id \in RegisteredIDs :
            PathsEver(id) = {} =>
                /\ EmittedFor(id) # {}
                /\ \A k \in EmittedFor(id) :
                     HasTag(output[k].node.Tags, "fzk_turning", "not_set")

(* C7, amended: the same of a point that carries no fzk_turning tag when    *)
(* it is registered                                                        *)
C7_Amended ==
    pc = "exit_0" =>
        \A id \in RegisteredIDs :
            (PathsEver(id) = {} /\ ~HasKey(Registered(id).Tags, "fzk_turning"))
                =>
                /\ EmittedFor(id) # {}
                /\ \A k \in EmittedFor(id) :
                     /\ HasTag(output[k].node.Tags, "fzk_turning", "not_set")
                     /\ FzkCount(output[k].node.Tags) = 1

\* a drained run with an unreferenced turning_loop point and a referenced one
C7_Witness ==
    /\ pc = "exit_0"
    /\ \E id, other \in RegisteredIDs :
         /\ PathsEver(id) = {}
         /\ ~HasKey(Registered(id).Tags, "fzk_turning")
         /\ HasTag(Registered(id).Tags, "highway", "turning_loop")
         /\ PathsEver(other) # {}

(* C8, as claimed: after the drain a point referenced, after it was         *)
(* registered, by qualifying paths of different categories carries the     *)
(* category of the first of them, and only that.                           *)
C8_AsClaimed ==
    pc = "exit_0" =>
        \A id \in RegisteredIDs :
            SeveralCategories(id) =>
                /\ EmittedFor(id) # {}
                /\ \A k \in EmittedFor(id) :
                     /\ HasTag(output[k].node.Tags, "fzk_turning",
                               CategoryOf(FirstPathAfter(id)))
                     /\ FzkCount(output[k].node.Tags) = 1

(* C8, amended: the same of a point that carries no fzk_turning tag when    *)
(* it is registered                                                        *)
C8_Amended ==
    pc = "exit_0" =>
        \A id \in RegisteredIDs :
            (SeveralCategories(id)
                 /\ ~HasKey(Registered(id).Tags, "fzk_turning")) =>
                /\ EmittedFor(id) # {}
                /\ \A k \in EmittedFor(id) :
                     /\ HasTag(output[k].node.Tags, "fzk_turning",
                               CategoryOf(FirstPathAfter(id)))
                     /\ FzkCount(output[k].node.Tags) = 1

\* a drained run with such a point
C8_Witness ==
    /\ pc = "exit_0"
    /\ \E id \in RegisteredIDs :
         /\ SeveralCategories(id)
         /\ ~HasKey(Registered(id).Tags, "fzk_turning")

----------------------------------------------------------------------------
\* the step registers a point under id, replacing the record kept there
Reregisters(id) ==
    /\ ScanStep
    /\ Scanned.type = "node"
    /\ Scanned.e.ID = id
    /\ IsTurningPoint(Scanned.e)

\* the records the step writes
WrittenByStep ==
    {k \in DOMAIN output' : k > Len(output) /\ output'[k].kind = "node"}

(* C9: a record of the map that carries an fzk_turning tag stays as it is   *)
(* in every step that does not replace it by a newly registered point: a   *)
(* path adds nothing to it and counts only the records it changes, and the *)
(* drain writes it as it is.                                               *)
C9_AnnotatedIsAbsorbing ==
    [][/\ \A id \in DOMAIN turningCircleLoop :
            (HasKey(turningCircleLoop[id].Tags, "fzk_turning")
                 /\ ~Reregisters(id)) =>
                /\ id \in DOMAIN turningCircleLoop'
                /\ turningCircleLoop'[id] = turningCircleLoop[id]
                /\ pc' = "exit_0" =>
                     \A k \in WrittenByStep :
                         output'[k].node.ID = id =>
                             output'[k].node = turningCircleLoop[id]
       /\ (ScanStep /\ Scanned.type = "way") =>
            turningCircleLoopModified' - turningCircleLoopModified =
                Cardinality({id \in DOMAIN turningCircleLoop :
                    turningCircleLoop'[id] # turningCircleLoop[id]})
      ]_vars

\* an annotated record referenced again by a qualifying path of another
\* category, and then drained
C9_Witness ==
    /\ pc = "exit_0"
    /\ Len(stream) = 3
    /\ stream[2].type = "way"
    /\ stream[3].type = "way"
    /\ \E id \in RegisteredIDs :
         /\ LastRegistration(id) = 1
         /\ PathsAfter(id) = {2, 3}
         /\ CategoryOf(2) # CategoryOf(3)
         /\ HasTag(turningCircleLoop[id].Tags, "fzk_turning", CategoryOf(2))

(* C10: a path changes the map only if its highway value is one of the      *)
(* five categories, and then only by appending fzk_turning = <that value>   *)
(* to records; any other path leaves the map and the count as they are.    *)
C10_OnlyQualifyingPaths ==
    [][(ScanStep /\ Scanned.type = "way") =>
          LET w == Scanned.e
          IN  /\ DOMAIN turningCircleLoop' = DOMAIN turningCircleLoop
              /\ ~IsQualifyingPath(w) =>
                   /\ turningCircleLoop' = turningCircleLoop
                   /\ turningCircleLoopModified' = turningCircleLoopModified
              /\ \A id \in DOMAIN turningCircleLoop :
                   turningCircleLoop'[id] # turningCircleLoop[id] =>
                       /\ TagValue(w.Tags, "highway") \in QualifyingCategories
                       /\ turningCircleLoop'[id] =
                              [turningCircleLoop[id] EXCEPT !.Tags =
                                  Append(@, Tag("fzk_turning",
                                                TagValue(w.Tags, "highway")))]
      ]_vars

\* a registered point passed by a footway, then annotated by a track
C10_Witness ==
    /\ Len(stream) = 3
    /\ 1 \in Registrations(1)
    /\ stream[2].type = "way"
    /\ HasTag(stream[2].e.Tags, "highway", "footway")
    /\ References(stream[2].e, 1)
    /\ stream[3].type = "way"
    /\ HasTag(stream[3].e.Tags, "highway", "track")
    /\ HasTag(turningCircleLoop[1].Tags, "fzk_turning", "track")

----------------------------------------------------------------------------
(* C11: the map holds an entry for every identifier ever registered as a    *)
(* turning point, so no entry is ever removed; and a run that ends its     *)
(* scan writes, after it, exactly one record for each of these identifiers *)
(* under that identifier, and no other record.                             *)
C11_TableDrainedOnce ==
    Running =>
        /\ DOMAIN turningCircleLoop = RegisteredIDs
        /\ pc = "exit_0" =>
             LET registered == RegisteredIDs
                 drained == DrainedAt
             IN  /\ \A id \in registered :
                      Cardinality({k \in drained : output[k].node.ID = id}) = 1
                 /\ \A k \in drained : output[k].node.ID \in registered
                 /\ Cardinality(drained) = Cardinality(registered)

\* a drained run with two identifiers registered, one of them twice
C11_Witness ==
    /\ pc = "exit_0"
    /\ Cardinality(RegisteredIDs) = 2
    /\ \E id \in RegisteredIDs : Cardinality(Registrations(id)) = 2
    /\ Cardinality(DrainedAt) = 2

----------------------------------------------------------------------------
\* output positions of all point records
RecordsAt == {k \in DOMAIN output : output[k].kind = "node"}

(* C12, as claimed: no two records written in a run, derived points and     *)
(* turning points alike, carry the same identifier.                        *)
C12_AsClaimed ==
    Running =>
        \A k, l \in RecordsAt :
            k # l => output[k].node.ID # output[l].node.ID

----------------------------------------------------------------------------
\* every qualifying path that references id was scanned before the point
\* was registered, and there is such a path
OnlyEarlierPaths(id) ==
    /\ PathsEver(id) # {}
    /\ \A j \in PathsEver(id) : \A i \in Registrations(id) : j < i

\* the step scans a qualifying path
QualifyingPathStep ==
    ScanStep /\ Scanned.type = "way" /\ IsQualifyingPath(Scanned.e)

\* a qualifying path leaves the references it does not find alone: the scan
\* goes on, no entry is made for them, and a path that finds none of its
\* references changes neither the map nor the count
UnregisteredReferenceIgnored ==
    QualifyingPathStep =>
        /\ pc' = "scan"
        /\ \A id \in NodeIDs :
             (References(Scanned.e, id) /\ id \notin DOMAIN turningCircleLoop)
                 => id \notin DOMAIN turningCircleLoop'
        /\ (\A id \in NodeIDs :
                References(Scanned.e, id) => id \notin DOMAIN turningCircleLoop)
             => /\ turningCircleLoop' = turningCircleLoop
                /\ turningCircleLoopModified' = turningCircleLoopModified

\* the record written for id is the registered point with not_set appended
WrittenNotSet(id) ==
    /\ EmittedFor(id) # {}
    /\ \A k \in EmittedFor(id) :
         /\ HasTag(output[k].node.Tags, "fzk_turning", "not_set")
         /\ output[k].node.Tags =
                Append(Registered(id).Tags, Tag("fzk_turning", "not_set"))

LatePointsNotSet_AsClaimed ==
    pc = "exit_0" =>
        \A id \in RegisteredIDs : OnlyEarlierPaths(id) => WrittenNotSet(id)

LatePointsNotSet ==
    pc = "exit_0" =>
        \A id \in RegisteredIDs :
            (OnlyEarlierPaths(id)
                 /\ ~HasKey(Registered(id).Tags, "fzk_turning"))
                => WrittenNotSet(id)

(* C13, as claimed: a qualifying path's reference to an identifier that is  *)
(* not registered when the path is scanned causes no error, no entry and   *)
(* no annotation; and a turning point registered only after every path     *)
(* that references it is written with fzk_turning = not_set.               *)
C13_AsClaimed ==
    [][UnregisteredReferenceIgnored /\ LatePointsNotSet_AsClaimed']_vars

(* C13, amended: the same, the last part of a point that carries no         *)
(* fzk_turning tag when it is registered                                   *)
C13_Amended ==
    [][UnregisteredReferenceIgnored /\ LatePointsNotSet']_vars

\* a drained run: a residential path through points 1 and 2, then point 1
\* registered without an fzk_turning tag, point 2 never
C13_Witness ==
    /\ pc = "exit_0"
    /\ Len(stream) = 2
    /\ stream[1].type = "way"
    /\ IsQualifyingPath(stream[1].e)
    /\ References(stream[1].e, 1) /\ References(stream[1].e, 2)
    /\ RegisteredIDs = {1}
    /\ OnlyEarlierPaths(1)
    /\ ~HasKey(Registered(1).Tags, "fzk_turning")
    /\ WrittenNotSet(1)

----------------------------------------------------------------------------
\* the number of derived points and of records written after the scan
DerivedCount == Cardinality(DerivedAt)
DrainedCount == Cardinality(DrainedAt)

(* C14: the output begins with the document header and the root opening;    *)
(* the derived points follow in the stream order of their source points,   *)
(* each written while its source point is the current object; no map       *)
(* record and no closing tag is written while the scan goes on; and a run  *)
(* that completes has written, after the derived points, all the map's     *)
(* records and then the closing tag, and nothing else.                     *)
C14_OutputOrder ==
    Running =>
        LET derived == DerivedAt
            drained == DrainedAt
            nDerived == Cardinality(derived)
            nDrained == Cardinality(drained)
        IN  /\ Len(output) >= 2
            /\ output[1].kind = "xmldecl"
            /\ output[2].kind = "osm_open"
            /\ \A k \in DOMAIN output :
                 k > 2 => output[k].kind \in {"node", "osm_close"}
            /\ \A k, l \in derived : k < l => origin[k] <= origin[l]
            /\ \A k \in derived :
                 /\ stream[origin[k]].type = "node"
                 /\ IsNetworkPoint(SourceOf(k))
                 /\ BodyOf(output[k].node) = BodyOf(SourceOf(k))
            /\ derived = 3..(2 + nDerived)
            /\ pc # "exit_0" =>
                 /\ drained = {}
                 /\ Len(output) = 2 + nDerived
            /\ pc = "exit_0" =>
                 /\ drained = (3 + nDerived)..(2 + nDerived + nDrained)
                 /\ nDrained = Cardinality(RegisteredIDs)
                 /\ Len(output) = 3 + nDerived + nDrained
                 /\ output[Len(output)].kind = "osm_close"

\* a completed run: a network point, a turning point, another network
\* point, then two derived records, one map record and the closing tag
C14_Witness ==
    /\ pc = "exit_0"
    /\ Len(stream) = 3
    /\ DerivedOf(1) # {} /\ DerivedOf(3) # {}
    /\ RegisteredIDs # {}
    /\ 2 \in Registrations(stream[2].e.ID)
    /\ DrainedCount >= 1
    /\ output[Len(output)].kind = "osm_close"

----------------------------------------------------------------------------
\* the closing tag is among the records written
ClosingTagWritten == \E k \in DOMAIN output : output[k].kind = "osm_close"

(* C15: a run whose scanner reports a decode error ends with a non-zero     *)
(* exit status at once: the step that ends it writes nothing and leaves    *)
(* the map alone, so no map record and no closing tag is ever written,     *)
(* and the run stays ended, never reaching the exit with status 0.         *)
C15_DecodeErrorAborts ==
    [][/\ (pc # "exit_scan_error" /\ pc' = "exit_scan_error") =>
            /\ pc = "scan"
            /\ ExitCodes[pc'] # 0
            /\ output' = output
            /\ turningCircleLoop' = turningCircleLoop
            /\ DrainedAt' = {}
            /\ ~ClosingTagWritten'
       /\ pc = "exit_scan_error" => pc' = "exit_scan_error"
      ]_vars

\* a run ended by a decode error after a turning point and a derived point
C15_Witness ==
    /\ pc = "exit_scan_error"
    /\ turningCircleLoop # <<>>
    /\ DerivedAt # {}
    /\ DrainedAt = {}
    /\ ~ClosingTagWritten

----------------------------------------------------------------------------
\* the input path or the output path is empty, or the start identifier is
\* missing (the flag's default, 0) or zero
MissingArgument == inputOSM = "" \/ outputNodes = "" \/ startNode = 0

(* C16: with an empty input path, an empty output path or a start           *)
(* identifier of zero the run can only end by printing the usage, with a   *)
(* non-zero exit status: the input is never opened, the output file never  *)
(* created or truncated, nothing is written and no object is scanned. An   *)
(* object is scanned only in a run with both paths non-empty and a         *)
(* non-zero start identifier.                                              *)
C16_UsageBeforeAnything ==
    /\ MissingArgument =>
         /\ pc \in {"start", "exit_usage"}
         /\ fileInput = "unopened"
         /\ fileOutput = "untouched"
         /\ output = <<>>
         /\ stream = <<>>
         /\ turningCircleLoop = <<>>
    /\ pc = "exit_usage" => ExitCodes[pc] # 0
    /\ (stream # <<>> \/ pc = "scan") =>
         inputOSM # "" /\ outputNodes # "" /\ startNode # 0

\* a run given both paths but no start identifier, ended by the usage
C16_Witness ==
    /\ pc = "exit_usage"
    /\ inputOSM # ""
    /\ outputNodes # ""
    /\ startNode = 0
    /\ fileInput = "unopened"
    /\ fileOutput = "untouched"

\* a run given all three that scanned an object
C16_WitnessRun ==
    /\ ~MissingArgument
    /\ stream # <<>>
    /\ fileOutput = "open"

----------------------------------------------------------------------------
\* the records of the map that have one fzk_turning tag more after the step
GainedByStep ==
    {id \in DOMAIN turningCircleLoop :
        /\ id \in DOMAIN turningCircleLoop'
        /\ FzkCount(turningCircleLoop'[id].Tags) =
               FzkCount(turningCircleLoop[id].Tags) + 1}

\* how often the path w lists id
TimesListed(w, id) == Cardinality({j \in DOMAIN w.Nodes : w.Nodes[j] = id})

(* C17: the value added to the count for one qualifying path is the number  *)
(* of map records that gained an fzk_turning tag in that call. These are   *)
(* the registered points the path lists that had no such tag, each counted *)
(* once and given one tag however often the path lists it; every other     *)
(* record stays as it is.                                                  *)
C17_CountOfNewlyAnnotated ==
    [][QualifyingPathStep =>
          /\ turningCircleLoopModified' - turningCircleLoopModified =
                 Cardinality(GainedByStep)
          /\ GainedByStep =
                 {id \in DOMAIN turningCircleLoop :
                     /\ References(Scanned.e, id)
                     /\ ~HasKey(turningCircleLoop[id].Tags, "fzk_turning")}
          /\ \A id \in GainedByStep :
                 Len(turningCircleLoop'[id].Tags) =
                     Len(turningCircleLoop[id].Tags) + 1
          /\ \A id \in DOMAIN turningCircleLoop \ GainedByStep :
                 turningCircleLoop'[id] = turningCircleLoop[id]
      ]_vars

\* a closed path that lists point 1 twice and point 2 once, scanned when
\* point 1 was registered without an fzk_turning tag and point 2 with one:
\* it counts one
C17_Witness ==
    /\ Len(stream) = 3
    /\ stream[3].type = "way"
    /\ IsQualifyingPath(stream[3].e)
    /\ TimesListed(stream[3].e, 1) = 2
    /\ TimesListed(stream[3].e, 2) = 1
    /\ RegisteredIDs = {1, 2}
    /\ ~HasKey(Registered(1).Tags, "fzk_turning")
    /\ HasKey(Registered(2).Tags, "fzk_turning")
    /\ turningCircleLoopModified = 1
    /\ FzkCount(turningCircleLoop[1].Tags) = 1

\* the same path scanned when only point 1 was registered, after a path
\* that had annotated it: it counts nothing
C17_WitnessZero ==
    /\ Len(stream) = 3
    /\ stream[2].type = "way" /\ stream[3].type = "way"
    /\ IsQualifyingPath(stream[3].e)
    /\ TimesListed(stream[3].e, 1) = 2
    /\ RegisteredIDs = {1}
    /\ PathsAfter(1) = {2, 3}
    /\ turningCircleLoopModified = 1

----------------------------------------------------------------------------
\* the tags the record of id must carry: those of its last registration,
\* and the one fzk_turning tag appended since, if any
TagsSinceLastRegistration(id) ==
    LET t == Registered(id).Tags
    IN  IF HasKey(t, "fzk_turning") THEN t
        ELSE IF PathsAfter(id) # {}
        THEN Append(t, Tag("fzk_turning", CategoryOf(FirstPathAfter(id))))
        ELSE IF pc = "exit_0" THEN Append(t, Tag("fzk_turning", "not_set"))
        ELSE t

\* of every identifier registered more than once, the map holds the point
\* registered last, and a completed run has written that record once
LaterRegistrationKept ==
    Running =>
        \A id \in RegisteredIDs :
            Cardinality(Registrations(id)) >= 2 =>
                /\ id \in DOMAIN turningCircleLoop
                /\ turningCircleLoop[id] =
                       [Registered(id) EXCEPT
                           !.Tags = TagsSinceLastRegistration(id)]
                /\ pc = "exit_0" =>
                     /\ Cardinality(EmittedFor(id)) = 1
                     /\ \A k \in EmittedFor(id) :
                            output[k].node = turningCircleLoop[id]

(* C18: when a turning point arrives under an identifier the map already    *)
(* holds, the scan goes on and the entry of that identifier becomes the    *)
(* point just scanned, the map keeping one entry for it; whatever was      *)
(* appended to the earlier record is gone, and a completed run writes one  *)
(* record with that identifier, the later point's.                         *)
C18_LaterRegistrationReplaces ==
    [][/\ \A id \in DOMAIN turningCircleLoop :
            Reregisters(id) =>
                /\ pc' = "scan"
                /\ DOMAIN turningCircleLoop' = DOMAIN turningCircleLoop
                /\ turningCircleLoop'[id] = Scanned.e
       /\ LaterRegistrationKept'
      ]_vars

\* a completed run: a turning_circle point, a path that annotates it, then
\* a turning_loop point under the same identifier, written with not_set
C18_Witness ==
    /\ pc = "exit_0"
    /\ Len(stream) = 3
    /\ \E id \in RegisteredIDs :
         /\ Registrations(id) = {1, 3}
         /\ PathsEver(id) = {2}
         /\ HasTag(stream[1].e.Tags, "highway", "turning_circle")
         /\ ~HasKey(stream[1].e.Tags, "fzk_turning")
         /\ HasTag(stream[3].e.Tags, "highway", "turning_loop")
         /\ turningCircleLoopModified = 1
         /\ EmittedFor(id) # {}
         /\ \A k \in EmittedFor(id) :
              output[k].node.Tags =
                  <<Tag("highway", "turning_loop"),
                    Tag("fzk_turning", "not_set")>>

----------------------------------------------------------------------------
\* the identifiers whose last registration is a point that is a network
\* point as well
RegisteredNetworkIDs ==
    {id \in RegisteredIDs : IsNetworkPoint(Registered(id))}

\* tags is the list original with one fzk_turning tag appended
PlusOneFzkTag(tags, original) ==
    /\ Len(tags) = Len(original) + 1
    /\ SubSeq(tags, 1, Len(original)) = original
    /\ tags[Len(tags)].Key = "fzk_turning"

\* the map holds the point under its own identifier, as it was scanned but
\* for an fzk_turning tag appended since
SourceKept(id) ==
    LET source == Registered(id)
    IN  /\ id \in DOMAIN turningCircleLoop
        /\ turningCircleLoop[id].ID = id
        /\ BodyOf(turningCircleLoop[id]) = BodyOf(source)
        /\ \/ turningCircleLoop[id].Tags = source.Tags
           \/ PlusOneFzkTag(turningCircleLoop[id].Tags, source.Tags)
        /\ (pc = "scan" /\ PathsAfter(id) = {}) =>
               turningCircleLoop[id] = source

(* C19, as claimed: synthesis leaves the source point as it was scanned, so *)
(* a point that is both a network point and a turning point is registered  *)
(* under its own identifier with its own tags, and a completed run writes  *)
(* it with that identifier and those tags plus one fzk_turning tag.        *)
C19_AsClaimed ==
    Running =>
        \A id \in RegisteredNetworkIDs :
            /\ SourceKept(id)
            /\ pc = "exit_0" =>
                 /\ Cardinality(EmittedFor(id)) = 1
                 /\ \A k \in EmittedFor(id) :
                      /\ output[k].node.ID = Registered(id).ID
                      /\ PlusOneFzkTag(output[k].node.Tags,
                                       Registered(id).Tags)

(* C19, amended: the same, the completed run writing the point with its     *)
(* own tags alone if it carries an fzk_turning tag of its own, and with    *)
(* one fzk_turning tag more if it carries none.                            *)
C19_Amended ==
    Running =>
        \A id \in RegisteredNetworkIDs :
            /\ SourceKept(id)
            /\ pc = "exit_0" =>
                 LET emitted == EmittedFor(id)
                     source == Registered(id)
                 IN  /\ Cardinality(emitted) = 1
                     /\ \A k \in emitted :
                          /\ output[k].node.ID = source.ID
                          /\ IF HasKey(source.Tags, "fzk_turning")
                             THEN output[k].node.Tags = source.Tags
                             ELSE PlusOneFzkTag(output[k].node.Tags,
                                                source.Tags)

\* a completed run with a point of both kinds and no fzk_turning tag of its
\* own: a derived point was made from it, and it was written under its own
\* identifier with its three tags and a fourth
C19_Witness ==
    /\ pc = "exit_0"
    /\ \E id \in RegisteredNetworkIDs :
         /\ ~HasKey(Registered(id).Tags, "fzk_turning")
         /\ DerivedOf(LastRegistration(id)) # {}
         /\ \E k \in EmittedFor(id) :
              /\ Len(output[k].node.Tags) = 4
              /\ output[k].node.ID = id
              /\ \A d \in DerivedOf(LastRegistration(id)) :
                   Len(output[d].node.Tags) = 2

----------------------------------------------------------------------------
\* the last tag of the record kept for id was appended to the point as it
\* was registered, by a path or by the final loop
AppendedValue(id) ==
    turningCircleLoop[id].Tags[Len(turningCircleLoop[id].Tags)].Value

AnnotatedEntries ==
    {id \in DOMAIN turningCircleLoop :
        /\ PlusOneFzkTag(turningCircleLoop[id].Tags, Registered(id).Tags)
        /\ AppendedValue(id) \in QualifyingCategories}

NotSetEntries ==
    {id \in DOMAIN turningCircleLoop :
        /\ PlusOneFzkTag(turningCircleLoop[id].Tags, Registered(id).Tags)
        /\ AppendedValue(id) = "not_set"}

\* no point of the input carries an fzk_turning tag
NoInputFzkTag ==
    \A i \in DOMAIN stream :
        stream[i].type = "node" => ~HasKey(stream[i].e.Tags, "fzk_turning")

\* no identifier is registered as a turning point more than once
NoDuplicateRegistration ==
    \A id \in RegisteredIDs : Cardinality(Registrations(id)) = 1

\* the count against the entries of the map
CountMatchesEntries ==
    /\ turningCircleLoopModified = Cardinality(AnnotatedEntries)
    /\ turningCircleLoopModified <= Cardinality(DOMAIN turningCircleLoop)
    /\ NoInputFzkTag =>
           turningCircleLoopModified + Cardinality(NotSetEntries) =
               Cardinality(DOMAIN turningCircleLoop)

(* C20, as claimed: when a run has completed, the count of highway types    *)
(* added is the number of map entries that carry an fzk_turning tag        *)
(* appended by a path, so it is at most the number of entries; and if no   *)
(* input point carried an fzk_turning tag, the count and the number of     *)
(* entries given not_set add up to the number of entries.                  *)
C20_AsClaimed == pc = "exit_0" => CountMatchesEntries

(* C20, amended: the same of a run in which no identifier is registered     *)
(* as a turning point more than once.                                      *)
C20_Amended ==
    (pc = "exit_0" /\ NoDuplicateRegistration) => CountMatchesEntries

\* a completed run without duplicates: one entry annotated by a path, one
\* given not_set
C20_Witness ==
    /\ pc = "exit_0"
    /\ NoDuplicateRegistration
    /\ NoInputFzkTag
    /\ Cardinality(DOMAIN turningCircleLoop) = 2
    /\ Cardinality(AnnotatedEntries) = 1
    /\ Cardinality(NotSetEntries) = 1
    /\ turningCircleLoopModified = 1

----------------------------------------------------------------------------
\* the families in the order the claim gives
FamilyOrder ==
    <<"node_bicycle", "node_hiking", "node_inline_skates", "node_horse",
      "node_canoe", "node_motorboat">>

\* the place of a derived record's family in that order
FamilyRank(k) ==
    CHOOSE r \in DOMAIN FamilyOrder :
        HasTag(output[k].node.Tags, "node_network", FamilyOrder[r])

\* the tag lists of the derived points of object i, in the order written
DerivedTagsOf(i) ==
    LET at == DerivedOf(i)
        first == CHOOSE k \in at : \A l \in at : k <= l
    IN  IF at = {} THEN <<>>
        ELSE [n \in 1..Cardinality(at) |-> output[first + n - 1].node.Tags]

\* the tags of a point, whatever their order
TagSet(e) == {e.Tags[j] : j \in DOMAIN e.Tags}

\* the record at output position k is a derived point
IsDerived(k) == output[k].kind = "node" /\ origin[k] \in 1..Len(stream)

(* C21: the derived points follow each other in the output in the order of  *)
(* their source points, so that those of one source stand next to each     *)
(* other with none of another source between them; those of one source    *)
(* come in the order bicycle, hiking, inline skates, horse, canoe,         *)
(* motorboat, each with the identifier that follows its predecessor's;     *)
(* and two source points with the same tags in different orders give the   *)
(* same derived points in the same order.                                  *)
C21_FamilyOrder ==
    Running =>
        /\ \A k \in DOMAIN output :
             (k > 1 /\ IsDerived(k) /\ IsDerived(k - 1)) =>
                 /\ origin[k - 1] <= origin[k]
                 /\ origin[k - 1] = origin[k] =>
                      /\ FamilyRank(k - 1) < FamilyRank(k)
                      /\ output[k].node.ID = output[k - 1].node.ID + 1
        /\ \A k \in DOMAIN output :
             (k > 1 /\ IsDerived(k) /\ ~IsDerived(k - 1)) =>
                 output[k - 1].kind = "osm_open"
        /\ \A i, j \in DOMAIN stream :
             (/\ i < j
              /\ stream[i].type = "node"
              /\ stream[j].type = "node"
              /\ TagSet(stream[i].e) = TagSet(stream[j].e))
                 => DerivedTagsOf(i) = DerivedTagsOf(j)

\* three network points scanned: one with a key of every family, tags in
\* the order of the families, one with the same tags in the opposite order,
\* one with two derived points; six records for each of the first two
C21_Witness ==
    /\ Len(stream) = 3
    /\ Cardinality(DerivedOf(1)) = 6
    /\ Cardinality(DerivedOf(2)) = 6
    /\ Cardinality(DerivedOf(3)) >= 1
    /\ stream[1].e.Tags # stream[2].e.Tags
    /\ stream[1].e.Tags[1].Key = "rmn_ref"
    /\ TagSet(stream[1].e) = TagSet(stream[2].e)
    /\ FamilyRank(3) = 1
    /\ FamilyRank(8) = 6

====
